---- MODULE Spec2Model ----
(***************************************************************************)
(* State-machine model of the RAG service in src/app: the FastAPI handlers *)
(* of main.py (health_check, upload_document, query_documents,             *)
(* clear_documents) over the process-wide vector_store handle, together    *)
(* with VectorStore (vector_store.py), DocumentProcessor                   *)
(* (document_processor.py), EmbeddingService (embeddings.py) and           *)
(* LLMService.generate_answer (llm.py).                                    *)
(*                                                                         *)
(* Representation.                                                         *)
(*  - A Python str is a sequence of tokens; a token is the whitespace      *)
(*    token " " or a word.  str.strip() removes leading and trailing       *)
(*    whitespace tokens, "" is <<>>.                                       *)
(*  - An extracted document text is a sequence of segments; a segment is   *)
(*    whitespace or a span of text that the splitter emits as one chunk.   *)
(*  - An embedding is a unit vector <<x, y>> with integer coordinates, so  *)
(*    the cosine distance 1 - cos is an integer in 0..2.                   *)
(*  - Optional values are records [some, v].                               *)
(*  - Every handler is "async def" and contains no await, so the event     *)
(*    loop runs a handler to completion before it starts the next one; pc  *)
(*    is the position of the handler that holds the loop.                  *)
(*  - The uuid4 record ids and the uploaded_at timestamps are not          *)
(*    modelled: no handler reads them.                                     *)
(***************************************************************************)
EXTENDS Integers, Sequences, FiniteSets, TLC

VARIABLES
    provider,    \* llm_service.provider, fixed at startup (main.py:55-59)
    store_has,   \* the store holds a collection named COLLECTION_NAME
    records,     \* the records of that collection, in insertion order
    vs_live,     \* the collection vector_store.collection refers to is that one
    saved,       \* names of the files written under data/documents
    pc,          \* position of the handler holding the event loop
    last         \* the response of the last completed request, with what it did

vars == <<provider, store_has, records, vs_live, saved, pc, last>>

----------------------------------------------------------------------------
(* Bounds of the model. *)

\* largest number of records the collection is let to hold
MaxRecords == 2

----------------------------------------------------------------------------
(* Program constants. *)

\* config.py:19
TOP_K_RESULTS == 3

None == [some |-> FALSE, v |-> <<>>]

Some(x) == [some |-> TRUE, v |-> x]

NoneInt == [some |-> FALSE, v |-> 0]

SomeInt(n) == [some |-> TRUE, v |-> n]

\* main.py:185
NO_DOCUMENTS_ANSWER == <<"No relevant documents found. Please upload documents first.">>

\* llm.py:113-116
NO_RESPONSE_ANSWER == <<"The model did not return a response.">>

----------------------------------------------------------------------------
(* Python str operations on token sequences. *)

IsSpace(tok) == tok = " "

RECURSIVE LStrip(_)
LStrip(s) ==
    IF s # <<>> /\ IsSpace(Head(s)) THEN LStrip(Tail(s)) ELSE s

RECURSIVE RStrip(_)
RStrip(s) ==
    IF s # <<>> /\ IsSpace(s[Len(s)]) THEN RStrip(SubSeq(s, 1, Len(s) - 1)) ELSE s

\* str.strip()
Strip(s) == RStrip(LStrip(s))

\* " ".join(parts)
RECURSIVE JoinSpace(_)
JoinSpace(parts) ==
    IF parts = <<>> THEN <<>>
    ELSE IF Len(parts) = 1 THEN parts[1]
    ELSE parts[1] \o <<" ">> \o JoinSpace(Tail(parts))

\* x or ""
OrEmpty(o) == IF o.some THEN o.v ELSE <<>>

----------------------------------------------------------------------------
(* LLMService (llm.py). *)

\* message.content and its parts, as the shapes _extract_openai_content tells apart
CNone == [kind |-> "none", v |-> <<>>, parts |-> <<>>, text |-> None]

CStr(s) == [kind |-> "str", v |-> s, parts |-> <<>>, text |-> None]

CList(ps) == [kind |-> "list", v |-> <<>>, parts |-> ps, text |-> None]

\* an object with a .text attribute
CObj(t) == [kind |-> "obj", v |-> <<>>, parts |-> <<>>, text |-> t]

\* any other object; v is str(content)
COther(s) == [kind |-> "other", v |-> s, parts |-> <<>>, text |-> None]

\* a str part
PStr(s) == [kind |-> "str", v |-> s, text |-> None, content |-> None]

\* a dict part; text.some says the key "text" is present, content likewise
PDict(t, c) == [kind |-> "dict", v |-> <<>>, text |-> t, content |-> c]

\* llm.py:23-33, what one part of a list content contributes
PartText(part) ==
    IF part.kind = "str" THEN part.v
    ELSE IF part.text.some THEN part.text.v
    ELSE OrEmpty(part.content)

\* llm.py:11
model_dump(message) == message.dump

\* llm.py:6-40
_extract_openai_content(message, content) ==
    LET c == IF content.kind = "none" THEN model_dump(message) ELSE content
    IN  IF c.kind = "none" THEN <<>>
        ELSE IF c.kind = "str" THEN Strip(c.v)
        ELSE IF c.kind = "list"
            THEN Strip(JoinSpace(SelectSeq(
                     [i \in 1..Len(c.parts) |-> PartText(c.parts[i])],
                     LAMBDA p : p # <<>>)))
        ELSE IF c.kind = "obj" THEN Strip(OrEmpty(c.text))
        ELSE Strip(c.v)

\* Python truthiness of an optional str
Truthy(o) == o.some /\ o.v # <<>>

Returned(s) == [raised |-> FALSE, answer |-> s]

Raised == [raised |-> TRUE, answer |-> <<>>]

\* llm.py:112-116, the replacement of an empty answer on the openai path
OpenAIEmptyFallback(answer) ==
    IF answer = <<>> THEN NO_RESPONSE_ANSWER ELSE answer

\* llm.py:81-117
generate_answer_openai(response) ==
    IF response.raises THEN Raised
    ELSE IF response.choices = <<>> THEN Returned(<<>>)
    ELSE
        LET message == response.choices[1]
            a1 == _extract_openai_content(message, message.content)
            a2 == IF a1 = <<>> /\ Truthy(message.refusal)
                  THEN Strip(OrEmpty(message.refusal)) ELSE a1
            a3 == IF a2 = <<>> /\ response.output.some
                  THEN Strip(response.output.v) ELSE a2
        IN  Returned(OpenAIEmptyFallback(a3))

\* llm.py:119-126
generate_answer_anthropic(response) ==
    IF response.raises THEN Raised
    ELSE IF response.content = <<>> THEN Raised
    ELSE Returned(Strip(response.content[1]))

\* llm.py:61-128
generate_answer(prov, response) ==
    IF prov = "openai" THEN generate_answer_openai(response)
    ELSE generate_answer_anthropic(response)

(* The replies of the two model APIs that the handlers are run against. *)

Message(c, d, r) == [content |-> c, dump |-> d, refusal |-> r]

Response(raises, choices, output, content) ==
    [raises |-> raises, choices |-> choices, output |-> output, content |-> content]

OpenAIMessages ==
    { Message(CStr(<<" ", "x", " ">>), CNone, None),
      Message(CStr(<<" ">>), CNone, None),
      Message(CStr(<<>>), CNone, Some(<<"r", " ">>)),
      Message(CNone, CNone, Some(<<" ">>)),
      Message(CNone, CStr(<<"x">>), None),
      Message(CList(<<PStr(<<"x">>), PStr(<<>>), PDict(Some(<<"y">>), None),
                      PDict(None, Some(<<" ">>))>>), CNone, None),
      Message(CObj(None), CNone, None),
      Message(COther(<<"x">>), CNone, None) }

OpenAIResponses ==
    { Response(TRUE, <<>>, None, <<>>), Response(FALSE, <<>>, None, <<>>) }
    \cup { Response(FALSE, <<m>>, None, <<>>) : m \in OpenAIMessages }
    \cup { Response(FALSE, <<Message(CList(<<>>), CNone, None)>>, o, <<>>) :
             o \in {Some(<<"o", " ">>), Some(<<" ">>)} }

AnthropicResponses ==
    { Response(TRUE, <<>>, None, <<>>) }
    \cup { Response(FALSE, <<>>, None, c) :
             c \in { <<>>, << <<"x">> >>, << <<" ", "x", " ">> >>, << <<" ">> >>,
                     << <<>> >> } }

Responses(prov) ==
    IF prov = "openai" THEN OpenAIResponses ELSE AnthropicResponses

----------------------------------------------------------------------------
(* DocumentProcessor (document_processor.py) and EmbeddingService          *)
(* (embeddings.py).                                                        *)

\* the names a client uploads under
FileNames == {"a.txt", "b.pdf", "n.md"}

\* main.py:105
allowed_extensions == {".pdf", ".txt", ".docx", ".doc"}

\* main.py:106, os.path.splitext(file.filename)[1].lower()
file_extension(name) ==
    CASE name = "a.txt" -> ".txt"
      [] name = "b.pdf" -> ".pdf"
      [] name = "n.md" -> ".md"

\* the segments of an extracted text: whitespace, or a span emitted as one chunk
Segments == {" ", "a", "b"}

\* the extracted texts uploaded: empty, whitespace-only, one chunk, two chunks
Texts ==
    { <<>>, <<" ">>, <<" ", " ">>, <<"a">>, <<" ", "b", " ">>,
      <<"a", " ", "b">>, <<"b", "a">>, <<"a", "a">> }

\* a splitter that keeps the chunks that are whitespace only
chunk_text_keep_blank(text) == text

\* document_processor.py:34-36: the splitter strips every chunk and drops the
\* chunks that are empty after stripping
chunk_text(text) == SelectSeq(text, LAMBDA seg : ~IsSpace(seg))

\* document_processor.py:38-42
process_document(text) == chunk_text(text)

\* embeddings.py:19-21, the model's vector of a text
embed_text(t) ==
    CASE t = "a" -> <<1, 0>>
      [] t = "b" -> <<0, 1>>
      [] t = "c" -> <<-1, 0>>
      [] OTHER -> <<0, -1>>

\* embeddings.py:23-32
embed_batch(texts) == [i \in 1..Len(texts) |-> embed_text(texts[i])]

----------------------------------------------------------------------------
(* VectorStore (vector_store.py). *)

\* vector_store.py:19, "hnsw:space": "cosine": 1 - cos of two unit vectors
distance(u, w) == 1 - (u[1] * w[1] + u[2] * w[2])

\* an add that first drops the records of the same source (an upsert by name)
add_documents_replace(recs, texts, embeddings, metadata) ==
    SelectSeq(recs, LAMBDA r : \A i \in 1..Len(metadata) :
                                  r.metadata.source # metadata[i].source)
    \o [i \in 1..Len(texts) |->
            [document |-> texts[i], embedding |-> embeddings[i],
             metadata |-> metadata[i]]]

\* vector_store.py:24-34: one collection.add call with the whole batch
add_documents(recs, texts, embeddings, metadata) ==
    recs \o [i \in 1..Len(texts) |->
                [document |-> texts[i], embedding |-> embeddings[i],
                 metadata |-> metadata[i]]]

\* an add chunk by chunk, which raises at the last chunk
failed_add_partial(recs, texts, embeddings, metadata) ==
    IF Len(texts) = 0 THEN recs
    ELSE add_documents(recs, SubSeq(texts, 1, Len(texts) - 1),
                       embeddings, metadata)

\* vector_store.py:31-33: the records after the collection.add call raised
failed_add(recs, texts, embeddings, metadata) == recs

\* collection.add rejects an empty batch
AddRejects(texts) == Len(texts) = 0

Min(a, b) == IF a < b THEN a ELSE b

\* vector_store.py:36-44: the orders in which collection.query may return the
\* top_k nearest records (as indexes into recs): ascending distance, the order
\* among records at equal distance left to the index
SearchOrders(recs, query_embedding, top_k) ==
    LET n == Len(recs)
        m == Min(top_k, n)
        d(i) == distance(query_embedding, recs[i].embedding)
    IN  { o \in [1..m -> 1..n] :
            /\ \A i, j \in 1..m : i < j => (o[i] # o[j] /\ d(o[i]) <= d(o[j]))
            /\ \A r \in 1..n :
                 (\A i \in 1..m : o[i] # r) => \A i \in 1..m : d(o[i]) <= d(r) }

\* vector_store.py:39-44, the result lists for one order
search(recs, query_embedding, order) ==
    [i \in 1..Len(order) |->
        [document |-> recs[order[i]].document,
         metadata |-> recs[order[i]].metadata,
         distance |-> distance(query_embedding, recs[order[i]].embedding)]]

\* collection.query rejects n_results < 1
QueryRejects(top_k) == top_k < 1

\* a clear that does not delete
delete_collection_keep(recs) == recs

\* vector_store.py:46-47, what is left of the collection's records
delete_collection(recs) == <<>>

\* vector_store.py:49-54
get_collection_stats(recs) == Len(recs)

\* whether the collection behind the vector_store handle exists in the store
HandleLive == store_has /\ vs_live

----------------------------------------------------------------------------
(* The pipelines of main.py. *)

\* positions counted from 1
BuildMetadata_one_based(filename, chunks) ==
    [idx \in 1..Len(chunks) |-> [source |-> filename, chunk_id |-> idx]]

\* main.py:136-143
BuildMetadata(filename, chunks) ==
    [idx \in 1..Len(chunks) |-> [source |-> filename, chunk_id |-> idx - 1]]

\* main.py:172, query_request.top_k or settings.TOP_K_RESULTS
EffectiveTopK(top_k) ==
    IF top_k.some /\ top_k.v # 0 THEN top_k.v ELSE TOP_K_RESULTS

\* main.py:179, 191-194: the context_chunks handed to generate_answer
retrieved_chunks(results) == [i \in 1..Len(results) |-> results[i].document]

\* a test that an empty result list never meets
NoResults_never(results) == FALSE

\* main.py:183
NoResults(results) == retrieved_chunks(results) = <<>>

\* the sources listed least similar first
BuildSources_reversed(results) ==
    [i \in 1..Len(results) |->
        LET r == results[Len(results) + 1 - i]
        IN  [content |-> r.document,
             source |-> r.metadata.source,
             chunk_id |-> r.metadata.chunk_id,
             similarity_score |-> 1 - r.distance]]

\* main.py:196-206
BuildSources(results) ==
    [i \in 1..Len(results) |->
        [content |-> results[i].document,
         source |-> results[i].metadata.source,
         chunk_id |-> results[i].metadata.chunk_id,
         similarity_score |-> 1 - results[i].distance]]

\* the questions asked and the top_k values sent
Questions == {"a", "c"}

TopKs == {NoneInt, SomeInt(0), SomeInt(1), SomeInt(-1)}

(* A response, with what the request did on its way. *)
Resp(op, status) ==
    [op |-> op, status |-> status,
     file |-> "", blank |-> FALSE, chunks_created |-> 0,
     total_documents |-> 0,
     answer |-> <<>>, source_chunks |-> <<>>,
     gen_called |-> FALSE, context |-> <<>>, results |-> <<>>,
     issued |-> "none", dangling |-> FALSE, raised |-> "none"]

\* main.py:29-66, the event loop is free
LoopIdle == pc = "idle"

\* the extracted text is empty or whitespace-only
IsBlank(text) == \A i \in 1..Len(text) : IsSpace(text[i])

----------------------------------------------------------------------------
(* Startup, main.py:29-62: a fresh store, in which VectorStore.__init__     *)
(* creates the collection.                                                 *)
Init ==
    /\ provider \in {"openai", "anthropic"}
    /\ store_has = TRUE
    /\ vs_live = TRUE
    /\ records = <<>>
    /\ saved = {}
    /\ pc = "idle"
    /\ last = Resp("none", 0)

\* GET /health, main.py:90-97
health_check ==
    /\ LoopIdle
    /\ last' = IF HandleLive
               THEN [Resp("health", 200) EXCEPT
                        !.total_documents = get_collection_stats(records),
                        !.issued = "stats"]
               ELSE [Resp("health", 500) EXCEPT
                        !.issued = "stats", !.dangling = TRUE, !.raised = "stats"]
    /\ UNCHANGED <<provider, store_has, records, vs_live, saved, pc>>

\* what every response to an upload carries
UploadResp(status, name, text) ==
    [Resp("upload", status) EXCEPT !.file = name, !.blank = IsBlank(text)]

\* POST /documents/upload, main.py:100-160.  A collaborator may raise at a
\* step: writing the file, load_document, embed_batch, or the store during
\* collection.add.
upload_document ==
    /\ LoopIdle
    /\ \E name \in FileNames, text \in Texts :
         \/ /\ file_extension(name) \notin allowed_extensions
            /\ last' = UploadResp(400, name, text)
            /\ UNCHANGED <<records, saved>>
         \/ /\ file_extension(name) \in allowed_extensions
            /\ saved' \in {saved, saved \cup {name}}
            /\ last' = [UploadResp(500, name, text) EXCEPT !.raised = "save"]
            /\ UNCHANGED records
         \/ /\ file_extension(name) \in allowed_extensions
            /\ saved' = saved \cup {name}
            /\ LET chunks == process_document(text)
                   embeddings == embed_batch(chunks)
                   metadata == BuildMetadata(name, chunks)
               IN  \/ /\ \E step \in {"load", "embed"} :
                           last' = [UploadResp(500, name, text) EXCEPT !.raised = step]
                      /\ UNCHANGED records
                   \/ /\ records' = failed_add(records, chunks, embeddings, metadata)
                      /\ last' = [UploadResp(500, name, text) EXCEPT
                                     !.issued = "add", !.dangling = ~HandleLive,
                                     !.raised = "add"]
                   \/ /\ HandleLive
                      /\ ~AddRejects(chunks)
                      /\ Len(records) + Len(chunks) <= MaxRecords
                      /\ records' = add_documents(records, chunks, embeddings, metadata)
                      /\ last' = [UploadResp(200, name, text) EXCEPT
                                     !.chunks_created = Len(chunks),
                                     !.issued = "add"]
    /\ UNCHANGED <<provider, store_has, vs_live, pc>>

\* POST /query, main.py:163-212.  embed_text, the store and the model API may
\* raise.
query_documents ==
    /\ LoopIdle
    /\ \E question \in Questions, top_k \in TopKs :
         LET query_embedding == embed_text(question)
             k == EffectiveTopK(top_k)
         IN  \/ last' = [Resp("query", 500) EXCEPT !.raised = "embed"]
             \/ /\ ~HandleLive \/ QueryRejects(k)
                /\ last' = [Resp("query", 500) EXCEPT
                               !.issued = "search", !.dangling = ~HandleLive,
                               !.raised = "search"]
             \/ /\ HandleLive
                /\ ~QueryRejects(k)
                /\ \E order \in SearchOrders(records, query_embedding, k) :
                     LET results == search(records, query_embedding, order)
                         seen == [Resp("query", 200) EXCEPT
                                     !.issued = "search", !.results = results]
                         called == [seen EXCEPT
                                      !.gen_called = TRUE,
                                      !.context = retrieved_chunks(results)]
                     IN  IF NoResults(results)
                         THEN last' = [seen EXCEPT !.answer = NO_DOCUMENTS_ANSWER]
                         ELSE \E response \in Responses(provider) :
                                LET g == generate_answer(provider, response)
                                IN  IF g.raised
                                    THEN last' = [called EXCEPT
                                             !.status = 500, !.raised = "generate"]
                                    ELSE last' = [called EXCEPT
                                             !.answer = g.answer,
                                             !.source_chunks = BuildSources(results)]
    /\ UNCHANGED <<provider, store_has, records, vs_live, saved, pc>>

\* DELETE /documents/clear, main.py:215-219: vector_store.delete_collection().
\* The store raises when no collection has the name, or (store_fails) on its
\* own; otherwise the collection is gone, and with it the one the handle holds.
clear_delete(store_fails) ==
    /\ LoopIdle
    /\ IF ~store_has \/ store_fails
       THEN /\ last' = [Resp("clear", 500) EXCEPT
                           !.issued = "delete", !.dangling = ~store_has,
                           !.raised = "delete"]
            /\ UNCHANGED <<store_has, records, vs_live, pc>>
       ELSE /\ store_has' = FALSE
            /\ vs_live' = FALSE
            /\ records' = delete_collection(records)
            /\ pc' = "clear_deleted"
            /\ UNCHANGED last
    /\ UNCHANGED <<provider, saved>>

\* main.py:220-224 with vector_store.py:8-22: get_or_create_collection gives the
\* collection of that name, a new one when there is none, and the handle is
\* replaced by one that holds it
clear_install ==
    /\ pc = "clear_deleted"
    /\ store_has' = TRUE
    /\ vs_live' = TRUE
    /\ pc' = "idle"
    /\ last' = [Resp("clear", 200) EXCEPT !.issued = "delete"]
    /\ UNCHANGED <<provider, records, saved>>

\* main.py:220-228: VectorStore(...) raises, the handle is not replaced
clear_construct_fails ==
    /\ pc = "clear_deleted"
    /\ pc' = "idle"
    /\ last' = [Resp("clear", 500) EXCEPT
                    !.issued = "delete", !.raised = "construct"]
    /\ UNCHANGED <<provider, store_has, records, vs_live, saved>>

Next ==
    \/ health_check
    \/ upload_document
    \/ query_documents
    \/ \E store_fails \in BOOLEAN : clear_delete(store_fails)
    \/ clear_install
    \/ clear_construct_fails

Spec == Init /\ [][Next]_vars

----------------------------------------------------------------------------
(* Properties. *)

\* a step in which upload_document ran to its response
UploadDone == pc = "idle" /\ pc' = "idle" /\ last'.op = "upload"

\* C1: a successful upload of a document of N chunks appends exactly N records
\* and keeps every earlier record in place, also the records ingested before
\* under the same name; so the total grows by the chunk count each time.
C1_IngestAppends ==
    [][(UploadDone /\ last'.status = 200) =>
          /\ get_collection_stats(records') =
                get_collection_stats(records) + last'.chunks_created
          /\ SubSeq(records', 1, Len(records)) = records]_vars

\* C1 witness: a successful upload under a name that earlier records carry.
C1_Witness ==
    /\ last.op = "upload" /\ last.status = 200 /\ last.chunks_created > 0
    /\ \E i \in 1..(Len(records) - last.chunks_created) :
          records[i].metadata.source = last.file

C3_EmptySearchFallback ==
    (last.op = "query" /\ last.issued = "search" /\ last.raised # "search"
        /\ last.results = <<>>) =>
       /\ last.status = 200
       /\ last.answer = NO_DOCUMENTS_ANSWER
       /\ last.source_chunks = <<>>
       /\ ~last.gen_called
       /\ last.context = <<>>

\* C3 witness: a search that returned nothing, after files were uploaded.
C3_Witness ==
    /\ last.op = "query" /\ last.issued = "search" /\ last.raised = "none"
    /\ last.results = <<>>
    /\ saved # {}

\* C4: after a clear that returned successfully the collection exists under its
\* name, the handle holds it, it has 0 records, and a search with any top_k
\* returns nothing.
C4_ClearEmpties ==
    (pc = "idle" /\ last.op = "clear" /\ last.status = 200) =>
       /\ store_has /\ vs_live
       /\ get_collection_stats(records) = 0
       /\ \A question \in Questions, top_k \in 1..(MaxRecords + 1) :
             \A order \in SearchOrders(records, embed_text(question), top_k) :
                search(records, embed_text(question), order) = <<>>

\* C4 witness: a successful clear after files were uploaded.
C4_Witness ==
    /\ pc = "idle" /\ last.op = "clear" /\ last.status = 200
    /\ saved = {"a.txt", "b.pdf"}

C6_AnswerNeverEmpty ==
    (last.op = "query" /\ last.status = 200 /\ last.results # <<>>) =>
       last.answer # <<>>

\* C7 (as claimed): no two records of the collection with the same source
\* carry the same chunk_id.
C7_ChunkIdUniquePerSource ==
    \A i, j \in 1..Len(records) :
       (i < j /\ records[i].metadata.source = records[j].metadata.source) =>
          records[i].metadata.chunk_id # records[j].metadata.chunk_id

\* C7 (amended): the records one successful upload of N chunks appends carry,
\* in chunk order, the chunk_ids 0..N-1 and the uploaded name as source, so
\* chunk_id is unique among the records of one upload.
C7_ChunkIdIsBatchPosition ==
    [][(UploadDone /\ last'.status = 200) =>
          /\ Len(records') >= Len(records) + last'.chunks_created
          /\ \A i \in 1..last'.chunks_created :
                records'[Len(records) + i].metadata =
                   [source |-> last'.file, chunk_id |-> i - 1]]_vars

\* C7 witness: an upload of two chunks, whose records carry chunk_ids 0 and 1.
C7_Witness ==
    /\ last.op = "upload" /\ last.status = 200 /\ last.chunks_created = 2
    /\ Len(records) >= 2

\* C8 (as claimed): no add and no search is issued against a collection that a
\* clear has deleted and not replaced.
C8_NoOperationOnClearedCollection ==
    last.issued \in {"add", "search"} => ~last.dangling

\* C9: when generate_answer is called, its context is the texts of the search
\* result in the order search returned them (ascending distance); the i-th
\* source returned carries the content, source and chunk_id of the i-th result
\* and similarity_score = 1 - that result's distance.
C9_SearchOrderPreserved ==
    (last.op = "query" /\ last.gen_called) =>
       /\ last.results # <<>>
       /\ \A i, j \in 1..Len(last.results) :
             i < j => last.results[i].distance <= last.results[j].distance
       /\ Len(last.context) = Len(last.results)
       /\ \A i \in 1..Len(last.results) :
             last.context[i] = last.results[i].document
       /\ last.status = 200 =>
             /\ Len(last.source_chunks) = Len(last.results)
             /\ \A i \in 1..Len(last.results) :
                   /\ last.source_chunks[i].content = last.results[i].document
                   /\ last.source_chunks[i].source = last.results[i].metadata.source
                   /\ last.source_chunks[i].chunk_id = last.results[i].metadata.chunk_id
                   /\ last.source_chunks[i].similarity_score
                         = 1 - last.results[i].distance

\* C9 witness: an answered query whose two sources come in the reverse of the
\* order in which their records were inserted, the nearer one first.
C9_Witness ==
    /\ last.op = "query" /\ last.status = 200 /\ last.gen_called
    /\ Len(last.source_chunks) = 2 /\ Len(records) = 2
    /\ last.source_chunks[1].content = records[2].document
    /\ last.source_chunks[2].content = records[1].document
    /\ last.source_chunks[1].similarity_score > last.source_chunks[2].similarity_score

\* C10 (as claimed): between requests the vector_store handle refers to a
\* collection that exists in the store.
C10_HandleRefersToExistingCollection ==
    pc = "idle" => HandleLive

====
